---------------------------- MODULE Spec2Model ----------------------------
(***************************************************************************)
(* Model of the protozero-to-text renderer (protozero_to_text.cc, held in  *)
(* src/ui/src/controller/search_controller.ts from line 234 on).           *)
(*                                                                         *)
(* A std::string is a sequence of byte values 0..255; all text the code    *)
(* appends is written here as the ASCII codes of its characters.           *)
(***************************************************************************)
EXTENDS Integers, Sequences, FiniteSets, TLC

(***************************************************************************)
(* Bounds of the model.                                                    *)
(***************************************************************************)
\* longest top-level record sequence given to ProtozeroToText
MaxFields == 2
\* largest initial_indent_depth given to ProtozeroToText
MaxIndentDepth == 1
\* longest raw string given directly to QuoteAndEscapeTextProtoString
MaxRawLen == 2
\* deepest chain of nested messages in an input
MaxNest == 2
\* largest magnitude of an enum value given to ProtozeroEnumToText
MaxEnumValue == 3
\* number of omnibox states the UI goes through
MaxOmniboxStates == 3

VARIABLES
  pc,                   \* "idle", "rendering", "done", "dcheck_abort", "crashed",
                        \* "escaped", "enum_done"
  dcheck_on,            \* the build compiles PERFETTO_DCHECK in (debug) or out
  char_is_signed,       \* the platform's plain char is signed
  pool,                 \* DescriptorPool argument
  type,                 \* type name argument
  protobytes,           \* byte span argument (raw string for the escaper)
  new_lines_mode,       \* kIncludeNewLines or kSkipNewLines
  initial_indent_depth, \* argument of ProtozeroToText
  enum_value,           \* argument of ProtozeroEnumToText
  stack,                \* the active calls of ProtozeroToTextInternal
  indents,              \* std::string indent of ProtozeroToText
  output,               \* std::string final_result / the returned string
  omniboxState,         \* globals.state.omniboxState
  updateInProgress,     \* SearchController.updateInProgress
  previousOmniboxState, \* SearchController.previousOmniboxState
  searches,             \* the specificSearch calls that have not settled
  published             \* the results given to publishSearchResult, in order

\* the variables of the renderer and of the search controller
renderVars == <<pc, dcheck_on, char_is_signed, pool, type, protobytes,
                new_lines_mode, initial_indent_depth, enum_value, stack,
                indents, output>>
searchVars == <<omniboxState, updateInProgress, previousOmniboxState, searches,
                published>>

vars == <<pc, dcheck_on, char_is_signed, pool, type, protobytes, new_lines_mode,
          initial_indent_depth, enum_value, stack, indents, output,
          omniboxState, updateInProgress, previousOmniboxState, searches,
          published>>

\* the value of a variable that holds no object
undefined == [id |-> 0]

(***************************************************************************)
(* Text helpers.                                                           *)
(***************************************************************************)
Byte == 0..255

(***************************************************************************)
(* Integers of the code.  A 64-bit word is the sequence of its 8 bytes,    *)
(* least significant first; an integer value is a sign and a magnitude.    *)
(***************************************************************************)
\* the word whose bytes are the values of f on 1..8
WordWith(f) == <<f[1], f[2], f[3], f[4], f[5], f[6], f[7], f[8]>>

\* the word 0
Zero == <<0, 0, 0, 0, 0, 0, 0, 0>>

\* the word of a small non-negative integer
WordOf(n) ==
  <<n % 256, (n \div 256) % 256, (n \div 65536) % 256, n \div 16777216,
    0, 0, 0, 0>>

\* static_cast to an unsigned type of n bytes
Low(w, n) == WordWith([i \in 1..8 |-> IF i <= n THEN w[i] ELSE 0])

\* ~w in n bytes
Invert(w, n) == WordWith([i \in 1..8 |-> IF i <= n THEN 255 - w[i] ELSE 0])

\* w + 1 in n bytes
Increment(w, n) ==
  WordWith([i \in 1..8 |->
             IF i > n THEN 0
             ELSE IF \A j \in 1..(i - 1) : w[j] = 255 THEN (w[i] + 1) % 256
             ELSE w[i]])

\* w >> 1
ShiftRight(w) ==
  WordWith([i \in 1..8 |->
             (w[i] \div 2) + (IF i < 8 THEN (w[i + 1] % 2) * 128 ELSE 0)])

\* the value of the n low bytes read as an unsigned integer
Unsigned(w, n) == [negative |-> FALSE, magnitude |-> Low(w, n)]

\* the value of the n low bytes read as a two's complement integer
Signed(w, n) ==
  IF w[n] >= 128
  THEN [negative |-> TRUE, magnitude |-> Increment(Invert(w, n), n)]
  ELSE [negative |-> FALSE, magnitude |-> Low(w, n)]

\* the value of a small integer of the model
IntValue(n) ==
  IF n < 0 THEN [negative |-> TRUE, magnitude |-> WordOf(-n)]
  ELSE [negative |-> FALSE, magnitude |-> WordOf(n)]

\* w is below 2^31
FitsInt(w) == w[4] < 128 /\ \A i \in 5..8 : w[i] = 0

\* the integer of a word below 2^31
IntOf(w) == w[1] + 256 * (w[2] + 256 * (w[3] + 256 * w[4]))

\* the integer of the 4 low bytes read as an int32_t
Int32Of(w) ==
  IF w[4] >= 128 THEN -IntOf(Invert(w, 4)) - 1 ELSE IntOf(Low(w, 4))

RECURSIVE ShiftDecimal(_, _)
\* the decimal digits, least significant first, of 256 times the number the
\* digits d denote, plus carry
ShiftDecimal(d, carry) ==
  IF d = <<>> THEN (IF carry = 0 THEN <<>>
                    ELSE <<carry % 10>> \o ShiftDecimal(<<>>, carry \div 10))
  ELSE LET x == 256 * Head(d) + carry IN
       <<x % 10>> \o ShiftDecimal(Tail(d), x \div 10)

RECURSIVE DecimalFrom(_, _)
\* the decimal digits, least significant first, of bytes k..8 of w
DecimalFrom(w, k) ==
  IF k > 8 THEN <<>> ELSE ShiftDecimal(DecimalFrom(w, k + 1), w[k])

\* the decimal digits of a word as text, most significant first
Decimal(w) ==
  LET d == DecimalFrom(w, 1) IN
  IF d = <<>> THEN <<48>> ELSE [i \in 1..Len(d) |-> 48 + d[Len(d) + 1 - i]]

\* std::to_string on an integer
to_string(x) == (IF x.negative THEN <<45>> ELSE <<>>) \o Decimal(x.magnitude)

\* one lower-case hexadecimal digit, as printf's %x prints it
HexDigit(h) == IF h < 10 THEN 48 + h ELSE 97 + (h - 10)

\* the k-th group of four bits of w, the least significant being the first
Nibble(w, k) ==
  IF k % 2 = 1 THEN w[(k + 1) \div 2] % 16 ELSE w[k \div 2] \div 16

\* printf("%0<width>x", v) for a v of width / 2 bytes: width digits, zero padded
PaddedHex(w, width) == [k \in 1..width |-> HexDigit(Nibble(w, width + 1 - k))]

\* ": "
ColonSpace == <<58, 32>>
\* "0x"
HexPrefix == <<48, 120>>
\* "true" / "false"
BoolText(b) == IF b THEN <<116, 114, 117, 101>> ELSE <<102, 97, 108, 115, 101>>

\* the value of a char holding byte b: plain char is signed or unsigned
\* depending on the platform
CharValue(b) == IF char_is_signed /\ b >= 128 THEN b - 256 ELSE b

\* EscapeByte with DEL (0x7f) taken as printable
EscapeByteDelPrintable(b) ==
  LET c == CharValue(b) IN
  CASE b = 7 -> <<92, 97>>
    [] b = 8 -> <<92, 98>>
    [] b = 12 -> <<92, 102>>
    [] b = 10 -> <<92, 110>>
    [] b = 13 -> <<92, 114>>
    [] b = 9 -> <<92, 116>>
    [] b = 11 -> <<92, 118>>
    [] b = 92 -> <<92, 92>>
    [] b = 39 -> <<92, 39>>
    [] b = 34 -> <<92, 34>>
    [] OTHER ->
         IF c >= 32 /\ c <= 127 THEN <<b>>
         ELSE <<92, 48 + ((b \div 64) % 4), 48 + ((b \div 8) % 8), 48 + (b % 8)>>

\* the switch of QuoteAndEscapeTextProtoString on one byte of the input
EscapeByte(b) ==
  LET c == CharValue(b) IN
  CASE b = 7 -> <<92, 97>>     \* '\a' -> \a
    [] b = 8 -> <<92, 98>>     \* '\b' -> \b
    [] b = 12 -> <<92, 102>>   \* '\f' -> \f
    [] b = 10 -> <<92, 110>>   \* '\n' -> \n
    [] b = 13 -> <<92, 114>>   \* '\r' -> \r
    [] b = 9 -> <<92, 116>>    \* '\t' -> \t
    [] b = 11 -> <<92, 118>>   \* '\v' -> \v
    [] b = 92 -> <<92, 92>>    \* '\\' -> \\
    [] b = 39 -> <<92, 39>>    \* '\'' -> \'
    [] b = 34 -> <<92, 34>>    \* '"'  -> \"
    [] OTHER ->
         IF c >= 32 /\ c <= 126 THEN <<b>>
         ELSE \* unsigned char c; '0' + ((c >> 6) & 3), ((c >> 3) & 7), (c & 7)
              <<92, 48 + ((b \div 64) % 4), 48 + ((b \div 8) % 8), 48 + (b % 8)>>

RECURSIVE EscapeAll(_)
\* the for loop of QuoteAndEscapeTextProtoString
EscapeAll(raw) ==
  IF raw = <<>> THEN <<>>
  ELSE EscapeByte(Head(raw)) \o EscapeAll(Tail(raw))

\* return '"' + ret + '"'
QuoteAndEscapeTextProtoString(raw) ==
  <<34>> \o EscapeAll(raw) \o <<34>>

(***************************************************************************)
(* protozero::ProtoDecoder (perfetto/protozero/proto_decoder.h): the wire  *)
(* tokenizer the renderer drives.  A span is a sequence of bytes, read_ptr *)
(* is a 1-based position in it.                                            *)
(***************************************************************************)
kVarInt == 0
kFixed64 == 1
kLengthDelimited == 2
kFixed32 == 5

RECURSIVE ParseVarIntFrom(_, _, _)
\* the bytes of a varint from position pos on, at most left of them: the
\* 7-bit groups, least significant first
ParseVarIntFrom(data, pos, left) ==
  IF left = 0 \/ pos > Len(data)
  THEN [ok |-> FALSE, groups |-> <<>>, next |-> pos]
  ELSE LET b == data[pos] IN
       IF b < 128 THEN [ok |-> TRUE, groups |-> <<b>>, next |-> pos + 1]
       ELSE LET r == ParseVarIntFrom(data, pos + 1, left - 1) IN
            [ok |-> r.ok, groups |-> <<b % 128>> \o r.groups, next |-> r.next]

\* (w << 7) | group
ShiftIn(w, group) ==
  WordWith([i \in 1..8 |->
             (w[i] % 2) * 128 + (IF i = 1 THEN group ELSE w[i - 1] \div 2)])

RECURSIVE GroupsWord(_)
\* the uint64_t the 7-bit groups denote, bits from 64 on being shifted out
GroupsWord(groups) ==
  IF groups = <<>> THEN Zero
  ELSE ShiftIn(GroupsWord(Tail(groups)), Head(groups))

\* ParseVarInt: a varint of at most 10 bytes into a uint64_t; on failure
\* nothing is consumed
ParseVarInt(data, pos) ==
  LET r == ParseVarIntFrom(data, pos, 10) IN
  IF r.ok THEN [ok |-> TRUE, value |-> GroupsWord(r.groups), next |-> r.next]
  ELSE [ok |-> FALSE, value |-> Zero, next |-> pos]

\* the n bytes from pos on, a little-endian unsigned integer
LittleEndian(data, pos, n) ==
  WordWith([i \in 1..8 |-> IF i <= n THEN data[pos + i - 1] ELSE 0])

\* a Field for which valid() is false; the decoder's read pointer stays at pos
InvalidField(pos) ==
  [valid |-> FALSE, id |-> 0, type |-> 0, int_value |-> Zero,
   data |-> <<>>, next |-> pos]

\* ProtoDecoder::ReadField at read pointer pos of the span data: the next wire
\* record, or an invalid Field when the span is exhausted or the record at pos
\* is malformed or truncated.  (Preambles of 2^31 and more, which no input of
\* the model holds, are taken as malformed.)
ReadField(data, pos) ==
  LET pre == ParseVarInt(data, pos)
      id == IntOf(pre.value) \div 8
      wt == IntOf(pre.value) % 8
      p == pre.next
      end == Len(data) + 1
  IN
  IF ~pre.ok \/ ~FitsInt(pre.value) \/ id = 0 \/ p >= end THEN InvalidField(pos)
  ELSE CASE wt = kVarInt ->
              LET v == ParseVarInt(data, p) IN
              IF ~v.ok THEN InvalidField(pos)
              ELSE [valid |-> TRUE, id |-> id, type |-> wt, int_value |-> v.value,
                    data |-> <<>>, next |-> v.next]
         [] wt = kLengthDelimited ->
              LET n == ParseVarInt(data, p) IN
              IF ~n.ok \/ ~FitsInt(n.value) \/ IntOf(n.value) > end - n.next
              THEN InvalidField(pos)
              ELSE [valid |-> TRUE, id |-> id, type |-> wt,
                    int_value |-> Zero,
                    data |-> SubSeq(data, n.next, n.next + IntOf(n.value) - 1),
                    next |-> n.next + IntOf(n.value)]
         [] wt = kFixed64 ->
              IF p + 8 > end THEN InvalidField(pos)
              ELSE [valid |-> TRUE, id |-> id, type |-> wt,
                    int_value |-> LittleEndian(data, p, 8),
                    data |-> <<>>, next |-> p + 8]
         [] wt = kFixed32 ->
              IF p + 4 > end THEN InvalidField(pos)
              ELSE [valid |-> TRUE, id |-> id, type |-> wt,
                    int_value |-> LittleEndian(data, p, 4),
                    data |-> <<>>, next |-> p + 4]
         [] OTHER -> InvalidField(pos)

\* ProtoDecoder::bytes_left()
bytes_left(data, pos) == Len(data) + 1 - pos

\* Field accessors: static_cast of the uint64_t int_value
as_uint64(field) == Unsigned(field.int_value, 8)
as_int64(field) == Signed(field.int_value, 8)
as_uint32(field) == Unsigned(field.int_value, 4)
as_int32(field) == Signed(field.int_value, 4)
as_bool(field) == field.int_value # Zero
\* zig-zag decoding of the uint64_t: (v >> 1) ^ -(v & 1)
as_sint64(field) ==
  LET half == ShiftRight(field.int_value) IN
  Signed(IF field.int_value[1] % 2 = 1 THEN Invert(half, 8) ELSE half, 8)
\* zig-zag decoding of static_cast<uint32_t>(int_value)
as_sint32(field) ==
  LET half == ShiftRight(Low(field.int_value, 4)) IN
  Signed(IF field.int_value[1] % 2 = 1 THEN Invert(half, 4) ELSE half, 4)

\* the payloads of 1.0f and 1.0 on the wire
FloatOne == <<0, 0, 128, 63>>
DoubleOne == <<0, 0, 0, 0, 0, 0, 240, 63>>

\* std::to_string(field.as_float()), "%f", for the bit patterns of the inputs
to_string_float(field) ==
  CASE field.int_value = LittleEndian(FloatOne, 1, 4) ->
         <<49, 46, 48, 48, 48, 48, 48, 48>>   \* 1.000000
    [] field.int_value = Zero ->
         <<48, 46, 48, 48, 48, 48, 48, 48>>   \* 0.000000

\* std::to_string(field.as_double()), "%f", for the bit patterns of the inputs
to_string_double(field) ==
  CASE field.int_value = LittleEndian(DoubleOne, 1, 8) ->
         <<49, 46, 48, 48, 48, 48, 48, 48>>   \* 1.000000
    [] field.int_value = Zero ->
         <<48, 46, 48, 48, 48, 48, 48, 48>>   \* 0.000000

(***************************************************************************)
(* DescriptorPool, ProtoDescriptor and FieldDescriptor                     *)
(* (src/trace_processor/util/descriptors.h).                               *)
(***************************************************************************)
\* FieldDescriptorProto::Type
TYPE_DOUBLE == 1
TYPE_FLOAT == 2
TYPE_INT64 == 3
TYPE_UINT64 == 4
TYPE_INT32 == 5
TYPE_FIXED64 == 6
TYPE_FIXED32 == 7
TYPE_BOOL == 8
TYPE_STRING == 9
TYPE_MESSAGE == 11
TYPE_BYTES == 12
TYPE_UINT32 == 13
TYPE_ENUM == 14
TYPE_SFIXED32 == 15
TYPE_SFIXED64 == 16
TYPE_SINT32 == 17
TYPE_SINT64 == 18

FieldDescriptor(name, t, ext, resolved) ==
  [null |-> FALSE, name |-> name, type |-> t, is_extension |-> ext,
   resolved_type_name |-> resolved]

\* a null FieldDescriptor pointer
nullptr ==
  [null |-> TRUE, name |-> <<>>, type |-> 0, is_extension |-> FALSE,
   resolved_type_name |-> ""]

\* ProtoDescriptor::FindFieldByTag
FindFieldByTag(desc, tag) ==
  IF tag \in DOMAIN desc.fields THEN desc.fields[tag] ELSE nullptr

\* ProtoDescriptor::FindEnumString
FindEnumString(desc, value) ==
  IF value \in DOMAIN desc.enum_values
  THEN [found |-> TRUE, str |-> desc.enum_values[value]]
  ELSE [found |-> FALSE, str |-> <<>>]

\* DescriptorPool::FindDescriptorIdx; a pool is indexed here by type name
FindDescriptorIdx(p, name) == name \in DOMAIN p

NoFields == [t \in {} |-> nullptr]
NoEnumValues == [v \in {} |-> <<>>]

\* message Outer
OuterDescriptor ==
  [fields |->
     (1 :> FieldDescriptor(<<102, 111, 111>>, TYPE_INT32, FALSE, "")           \* foo
      @@ 2 :> FieldDescriptor(<<98, 97, 114>>, TYPE_MESSAGE, FALSE, ".Inner")   \* bar
      @@ 3 :> FieldDescriptor(<<99, 111, 108>>, TYPE_ENUM, FALSE, ".Color")     \* col
      @@ 4 :> FieldDescriptor(<<115, 116, 114>>, TYPE_STRING, FALSE, "")        \* str
      @@ 5 :> FieldDescriptor(<<102, 51, 50>>, TYPE_FIXED32, FALSE, "")         \* f32
      @@ 6 :> FieldDescriptor(<<103, 104, 111>>, TYPE_MESSAGE, FALSE, ".Ghost") \* gho
      @@ 7 :> FieldDescriptor(<<103, 101, 110>>, TYPE_ENUM, FALSE, ".GhostEnum") \* gen
      @@ 8 :> FieldDescriptor(<<101, 120, 116>>, TYPE_MESSAGE, TRUE, ".Inner")  \* ext
      @@ 9 :> FieldDescriptor(<<115, 54, 52>>, TYPE_SFIXED64, FALSE, "")        \* s64
      @@ 10 :> FieldDescriptor(<<115, 105, 110>>, TYPE_SINT32, FALSE, "")       \* sin
      @@ 11 :> FieldDescriptor(<<98, 111, 111>>, TYPE_BOOL, FALSE, "")          \* boo
      @@ 12 :> FieldDescriptor(<<102, 108, 116>>, TYPE_FLOAT, FALSE, "")        \* flt
      @@ 13 :> FieldDescriptor(<<100, 98, 108>>, TYPE_DOUBLE, FALSE, "")        \* dbl
      @@ 14 :> FieldDescriptor(<<98, 121, 116>>, TYPE_BYTES, FALSE, "")),       \* byt
   enum_values |-> NoEnumValues]

\* message Inner
InnerDescriptor ==
  [fields |->
     (1 :> FieldDescriptor(<<98, 97, 122>>, TYPE_INT32, FALSE, "")              \* baz
      @@ 2 :> FieldDescriptor(<<115, 117, 98>>, TYPE_MESSAGE, FALSE, ".Inner")  \* sub
      @@ 3 :> FieldDescriptor(<<120, 99, 111>>, TYPE_ENUM, TRUE, ".Color")      \* xco
      @@ 4 :> FieldDescriptor(<<120, 115, 116>>, TYPE_STRING, TRUE, "")         \* xst
      @@ 5 :> FieldDescriptor(<<115, 102, 51>>, TYPE_SFIXED32, FALSE, "")       \* sf3
      @@ 7 :> FieldDescriptor(<<117, 51, 50>>, TYPE_UINT32, FALSE, "")          \* u32
      @@ 9 :> FieldDescriptor(<<102, 54, 52>>, TYPE_FIXED64, FALSE, "")         \* f64
      @@ 10 :> FieldDescriptor(<<122, 54, 52>>, TYPE_SINT64, FALSE, "")         \* z64
      @@ 11 :> FieldDescriptor(<<117, 54, 52>>, TYPE_UINT64, FALSE, "")         \* u64
      @@ 12 :> FieldDescriptor(<<119, 115, 116>>, TYPE_STRING, FALSE, "")       \* wst
      @@ 14 :> FieldDescriptor(<<119, 105, 110>>, TYPE_INT32, FALSE, "")        \* win
      @@ 15 :> FieldDescriptor(<<105, 54, 52>>, TYPE_INT64, FALSE, "")),        \* i64
   enum_values |-> NoEnumValues]

\* enum Color { NEG = -1; RED = 1; BLUE = 2; }
ColorDescriptor ==
  [fields |-> NoFields,
   enum_values |->
     (-1 :> <<78, 69, 71>> @@ 1 :> <<82, 69, 68>> @@ 2 :> <<66, 76, 85, 69>>)]

\* the pool of the model, also taken as the embedded kTrackEventDescriptor;
\* .Ghost and .GhostEnum are referenced by fields and absent from it
TrackEventPool ==
  (".Outer" :> OuterDescriptor @@ ".Inner" :> InnerDescriptor
   @@ ".Color" :> ColorDescriptor)

Pools == {TrackEventPool}
TypeNames == {".Outer", ".Inner", ".Color", ".Ghost"}

(***************************************************************************)
(* Inputs: byte spans written by a standard protobuf encoder, and          *)
(* corrupted variants of them.                                             *)
(***************************************************************************)
RECURSIVE EncodeVarInt(_)
EncodeVarInt(n) ==
  IF n < 128 THEN <<n>> ELSE <<128 + (n % 128)>> \o EncodeVarInt(n \div 128)

\* the ten bytes of the varint of a negative int32 or int64: -1 and -2
MinusOne == <<255, 255, 255, 255, 255, 255, 255, 255, 255, 1>>
MinusTwo == <<254, 255, 255, 255, 255, 255, 255, 255, 255, 1>>
\* the varint of 2^32 + 5
WideFive == <<133, 128, 128, 128, 16>>
\* the little-endian bytes of 0xDEADBEEF and of 0xFFFFFFFFFFFFFFFE
DeadBeef == <<239, 190, 173, 222>>
AllOnesButOne == <<254, 255, 255, 255, 255, 255, 255, 255>>

EncodeTag(id, wt) == EncodeVarInt(id * 8 + wt)
VarIntRecord(id, v) == EncodeTag(id, kVarInt) \o EncodeVarInt(v)
\* a varint record whose value is given by its encoded bytes
WideVarIntRecord(id, bytes) == EncodeTag(id, kVarInt) \o bytes
\* fixed records: the payload is the 4 or 8 little-endian bytes
Fixed32Record(id, bytes) == EncodeTag(id, kFixed32) \o bytes
Fixed64Record(id, bytes) == EncodeTag(id, kFixed64) \o bytes
LengthDelimitedRecord(id, payload) ==
  EncodeTag(id, kLengthDelimited) \o EncodeVarInt(Len(payload)) \o payload

\* Inner { baz: 7 }
Baz7 == VarIntRecord(1, 7)

RECURSIVE Nested(_)
\* baz: 7 wrapped in k levels of Inner.sub
Nested(k) == IF k = 0 THEN Baz7 ELSE LengthDelimitedRecord(2, Nested(k - 1))

\* payloads of a nested message field
InnerPayloads ==
  {<<>>, Baz7, Baz7 \o Baz7, <<8>>} \cup {Nested(k) : k \in 1..(MaxNest - 1)}

\* the records a span may start with
FirstRecords ==
  {VarIntRecord(1, 150), VarIntRecord(3, 1), VarIntRecord(3, 9),
   VarIntRecord(7, 1), VarIntRecord(10, 3), VarIntRecord(11, 1),
   VarIntRecord(15, 7),
   WideVarIntRecord(1, WideFive), WideVarIntRecord(3, MinusOne),
   WideVarIntRecord(3, MinusTwo),
   Fixed32Record(5, DeadBeef), Fixed32Record(12, FloatOne),
   Fixed64Record(9, AllOnesButOne), Fixed64Record(13, DoubleOne),
   LengthDelimitedRecord(4, <<97, 10>>),
   LengthDelimitedRecord(14, <<1, 200>>),
   LengthDelimitedRecord(15, <<34, 127>>),
   LengthDelimitedRecord(6, Baz7),
   LengthDelimitedRecord(8, Baz7)}
  \cup {LengthDelimitedRecord(2, p) : p \in InnerPayloads}

\* the records that may follow
NextRecords ==
  {VarIntRecord(1, 150), LengthDelimitedRecord(2, Baz7),
   LengthDelimitedRecord(15, <<34, 127>>)}

RECURSIVE Followers(_)
\* at most n following records
Followers(n) ==
  IF n = 0 THEN {<<>>}
  ELSE {<<>>} \cup {r \o t : r \in NextRecords, t \in Followers(n - 1)}

\* spans whose last byte is missing, and a nested message whose declared
\* length is one byte shorter than its payload
CorruptSpans ==
  {SubSeq(r, 1, Len(r) - 1) : r \in FirstRecords}
  \cup {EncodeTag(2, kLengthDelimited) \o <<Len(Baz7) - 1>> \o Baz7 \o t :
          t \in Followers(1)}

Spans ==
  {<<>>} \cup {r \o t : r \in FirstRecords, t \in Followers(MaxFields - 1)}
  \cup CorruptSpans

(***************************************************************************)
(* The field renderers.  Each takes the output string and returns it with  *)
(* the field's fragment appended.                                          *)
(***************************************************************************)
kIncludeNewLines == "kIncludeNewLines"
kSkipNewLines == "kSkipNewLines"

\* uint32_t type = fd ? fd->type() : 0
TypeOf(fd) == IF fd.null THEN 0 ELSE fd.type

\* StrAppend(out, "  ")
IncreaseIndents(ind) == ind \o <<32, 32>>

\* DecreaseIndents erasing a single character
DecreaseIndentsByOne(ind) == SubSeq(ind, 1, Len(ind) - 1)

\* out->erase(out->size() - 2)
DecreaseIndents(ind) == SubSeq(ind, 1, Len(ind) - 2)

FormattedFieldDescriptorName(fd) ==
  IF fd.is_extension
  THEN \* "[perfetto.protos." + name + "]"
       <<91, 112, 101, 114, 102, 101, 116, 116, 111, 46,
         112, 114, 111, 116, 111, 115, 46>> \o fd.name \o <<93>>
  ELSE fd.name

\* the fall-through of PrintVarIntField: field id and raw unsigned value
UnknownVarInt(field, out) ==
  out \o to_string(IntValue(field.id)) \o ColonSpace \o to_string(as_uint64(field))

\* PrintEnumField keeping the declared name when the enum does not resolve
PrintEnumFieldNamedFallback(fd, field, p, out) ==
  IF ~FindDescriptorIdx(p, fd.resolved_type_name)
  THEN out \o fd.name \o ColonSpace \o to_string(as_uint64(field))
  ELSE LET s == FindEnumString(p[fd.resolved_type_name], Int32Of(field.int_value)) IN
       IF ~s.found THEN out \o fd.name \o ColonSpace \o to_string(as_uint64(field))
       ELSE out \o fd.name \o ColonSpace \o s.str

\* case TYPE_ENUM of PrintVarIntField: an enum type or value that is not
\* found breaks out of the switch to the unknown-field format
PrintEnumField(fd, field, p, out) ==
  IF ~FindDescriptorIdx(p, fd.resolved_type_name)
  THEN UnknownVarInt(field, out)
  ELSE LET s == FindEnumString(p[fd.resolved_type_name], Int32Of(field.int_value)) IN
       IF ~s.found THEN UnknownVarInt(field, out)
       ELSE out \o fd.name \o ColonSpace \o s.str

PrintVarIntField(fd, field, p, out) ==
  LET t == TypeOf(fd) IN
  CASE t = TYPE_INT32 -> out \o fd.name \o ColonSpace \o to_string(as_int32(field))
    [] t = TYPE_SINT32 -> out \o fd.name \o ColonSpace \o to_string(as_sint32(field))
    [] t = TYPE_UINT32 -> out \o fd.name \o ColonSpace \o to_string(as_uint32(field))
    [] t = TYPE_INT64 -> out \o fd.name \o ColonSpace \o to_string(as_int64(field))
    [] t = TYPE_SINT64 -> out \o fd.name \o ColonSpace \o to_string(as_sint64(field))
    [] t = TYPE_UINT64 -> out \o fd.name \o ColonSpace \o to_string(as_uint64(field))
    [] t = TYPE_BOOL -> out \o fd.name \o ColonSpace \o BoolText(as_bool(field))
    [] t = TYPE_ENUM -> PrintEnumField(fd, field, p, out)
    [] OTHER -> UnknownVarInt(field, out)

PrintFixed32Field(fd, field, out) ==
  LET t == TypeOf(fd) IN
  CASE t = TYPE_SFIXED32 -> out \o fd.name \o ColonSpace \o to_string(as_int32(field))
    [] t = TYPE_FIXED32 -> out \o fd.name \o ColonSpace \o to_string(as_uint32(field))
    [] t = TYPE_FLOAT -> out \o fd.name \o ColonSpace \o to_string_float(field)
    [] OTHER -> \* "0x%08" PRIx32
         out \o to_string(IntValue(field.id)) \o ColonSpace
             \o HexPrefix \o PaddedHex(as_uint32(field).magnitude, 8)

\* PrintFixed64Field padding the unknown-field value to 8 digits only
PrintFixed64FieldShortPad(fd, field, out) ==
  LET t == TypeOf(fd) IN
  CASE t = TYPE_SFIXED64 -> out \o fd.name \o ColonSpace \o to_string(as_int64(field))
    [] t = TYPE_FIXED64 -> out \o fd.name \o ColonSpace \o to_string(as_uint64(field))
    [] t = TYPE_DOUBLE -> out \o fd.name \o ColonSpace \o to_string_double(field)
    [] OTHER ->
         out \o to_string(IntValue(field.id)) \o ColonSpace
             \o HexPrefix \o PaddedHex(as_uint64(field).magnitude, 8)

PrintFixed64Field(fd, field, out) ==
  LET t == TypeOf(fd) IN
  CASE t = TYPE_SFIXED64 -> out \o fd.name \o ColonSpace \o to_string(as_int64(field))
    [] t = TYPE_FIXED64 -> out \o fd.name \o ColonSpace \o to_string(as_uint64(field))
    [] t = TYPE_DOUBLE -> out \o fd.name \o ColonSpace \o to_string_double(field)
    [] OTHER -> \* "0x%016" PRIx64
         out \o to_string(IntValue(field.id)) \o ColonSpace
             \o HexPrefix \o PaddedHex(as_uint64(field).magnitude, 16)

\* PrintLengthDelimitedField for every declared type but TYPE_MESSAGE
PrintLengthDelimitedField(fd, field, out) ==
  LET t == TypeOf(fd) IN
  CASE t \in {TYPE_BYTES, TYPE_STRING} ->
         out \o fd.name \o ColonSpace \o QuoteAndEscapeTextProtoString(field.data)
    [] OTHER ->
         out \o to_string(IntValue(field.id)) \o ColonSpace
             \o QuoteAndEscapeTextProtoString(field.data)

\* PrintLengthDelimitedField, TYPE_MESSAGE, before the recursive call: name ": {"
OpenMessageField(fd, out) ==
  out \o FormattedFieldDescriptorName(fd) \o <<58, 32, 123>>

\* CloseMessageField leaving the indentation out before the brace
CloseMessageFieldWithoutIndent(ind, mode, out) ==
  IF mode = kIncludeNewLines THEN out \o <<10>> \o <<125>>
  ELSE out \o <<32, 125>>

\* PrintLengthDelimitedField, TYPE_MESSAGE, after the recursive call:
\* "\n" indents "}" or " }"; ind is the indentation already decreased
CloseMessageField(ind, mode, out) ==
  IF mode = kIncludeNewLines THEN out \o <<10>> \o ind \o <<125>>
  ELSE out \o <<32, 125>>

\* Separator leaving the indentation out after a newline or a space
SeparatorWithoutIndent(ind, mode, out) ==
  IF out # <<>>
  THEN IF mode = kIncludeNewLines THEN out \o <<10>> ELSE out \o <<32>>
  ELSE out \o ind

\* the separator ProtozeroToTextInternal appends before a field
Separator(ind, mode, out) ==
  IF out # <<>>
  THEN IF mode = kIncludeNewLines THEN out \o <<10>> \o ind
       ELSE out \o <<32>> \o ind
  ELSE out \o ind

\* PrintField skipping the records that have no field descriptor
PrintFieldSkippingUnknown(fd, field, p, out) ==
  IF fd.null THEN out
  ELSE CASE field.type = kVarInt -> PrintVarIntField(fd, field, p, out)
         [] field.type = kLengthDelimited -> PrintLengthDelimitedField(fd, field, out)
         [] field.type = kFixed32 -> PrintFixed32Field(fd, field, out)
         [] field.type = kFixed64 -> PrintFixed64Field(fd, field, out)

\* the switch of ProtozeroToTextInternal on field.type(), but for message fields
PrintField(fd, field, p, out) ==
  CASE field.type = kVarInt -> PrintVarIntField(fd, field, p, out)
    [] field.type = kLengthDelimited -> PrintLengthDelimitedField(fd, field, out)
    [] field.type = kFixed32 -> PrintFixed32Field(fd, field, out)
    [] field.type = kFixed64 -> PrintFixed64Field(fd, field, out)

(***************************************************************************)
(* ProtozeroEnumToText.                                                    *)
(***************************************************************************)
\* ProtozeroEnumToText falling back to the unsigned magnitude of the value
ProtozeroEnumToTextUnsigned(t, value) ==
  IF ~FindDescriptorIdx(TrackEventPool, t)
  THEN to_string(IntValue(IF value < 0 THEN -value ELSE value))
  ELSE LET s == FindEnumString(TrackEventPool[t], value) IN
       IF ~s.found THEN to_string(IntValue(IF value < 0 THEN -value ELSE value))
       ELSE s.str

ProtozeroEnumToText(t, value) ==
  IF ~FindDescriptorIdx(TrackEventPool, t) THEN to_string(IntValue(value))
  ELSE LET s == FindEnumString(TrackEventPool[t], value) IN
       IF ~s.found THEN to_string(IntValue(value)) ELSE s.str

(***************************************************************************)
(* The state machine.  One ProtozeroToText call is a stack of active       *)
(* ProtozeroToTextInternal calls, each with its descriptor and its         *)
(* decoder; one step handles one ReadField of the innermost call.          *)
(***************************************************************************)
Frame(desc, bytes) == [desc |-> desc, data |-> bytes, read_ptr |-> 1]

Top == stack[Len(stack)]
\* the Field the innermost decoder reads next
NextField == ReadField(Top.data, Top.read_ptr)
\* the stack once the innermost decoder has consumed field
Advanced(field) == [stack EXCEPT ![Len(stack)].read_ptr = field.next]

Init ==
  /\ pc = "idle"
  /\ dcheck_on \in BOOLEAN
  /\ char_is_signed \in BOOLEAN
  /\ pool = [n \in {} |-> OuterDescriptor]
  /\ type = ""
  /\ protobytes = <<>>
  /\ new_lines_mode = kIncludeNewLines
  /\ initial_indent_depth = 0
  /\ enum_value = 0
  /\ stack = <<>>
  /\ indents = <<>>
  /\ output = <<>>
  /\ omniboxState = undefined
  /\ updateInProgress = FALSE
  /\ previousOmniboxState = undefined
  /\ searches = <<>>
  /\ published = <<>>

\* The head of ProtozeroToTextInternal: FindDescriptorIdx, PERFETTO_DCHECK and
\* pool.descriptors()[*opt_proto_descriptor_idx].  With the DCHECK compiled out
\* an empty optional is dereferenced: the index read is arbitrary, so the call
\* goes on with some descriptor of the pool or the process faults.
EnterMessage(p, t, bytes, below) ==
  \/ /\ FindDescriptorIdx(p, t)
     /\ pc' = "rendering"
     /\ stack' = Append(below, Frame(p[t], bytes))
  \/ /\ ~FindDescriptorIdx(p, t)
     /\ dcheck_on
     /\ pc' = "dcheck_abort"
     /\ stack' = below
  \/ /\ ~FindDescriptorIdx(p, t)
     /\ ~dcheck_on
     /\ \E n \in DOMAIN p :
          /\ pc' = "rendering"
          /\ stack' = Append(below, Frame(p[n], bytes))
  \/ /\ ~FindDescriptorIdx(p, t)
     /\ ~dcheck_on
     /\ pc' = "crashed"
     /\ stack' = below

\* ProtozeroToText(pool, type, protobytes, new_lines_mode, initial_indent_depth)
\* up to the first ReadField
ProtozeroToText ==
  /\ pc = "idle"
  /\ \E p \in Pools, t \in TypeNames, bytes \in Spans,
        mode \in {kIncludeNewLines, kSkipNewLines}, depth \in 0..MaxIndentDepth :
       /\ pool' = p
       /\ type' = t
       /\ protobytes' = bytes
       /\ new_lines_mode' = mode
       /\ initial_indent_depth' = depth
       /\ indents' = [i \in 1..(2 * depth) |-> 32]
       /\ output' = <<>>
       /\ EnterMessage(p, t, bytes, <<>>)
  /\ UNCHANGED <<dcheck_on, char_is_signed, enum_value>>
  /\ UNCHANGED searchVars

\* one iteration of the loop of ProtozeroToTextInternal on a field that is
\* not a nested message
RenderField ==
  /\ pc = "rendering"
  /\ LET field == NextField
         fd == FindFieldByTag(Top.desc, field.id)
     IN
     /\ field.valid
     /\ ~(field.type = kLengthDelimited /\ TypeOf(fd) = TYPE_MESSAGE)
     /\ output' = PrintField(fd, field, pool, Separator(indents, new_lines_mode, output))
     /\ stack' = Advanced(field)
  /\ UNCHANGED <<pc, dcheck_on, char_is_signed, pool, type, protobytes,
                 new_lines_mode, initial_indent_depth, enum_value, indents>>
  /\ UNCHANGED searchVars

\* one iteration of the loop on a nested message field, up to the first
\* ReadField of the recursive call
RenderMessageField ==
  /\ pc = "rendering"
  /\ LET field == NextField
         fd == FindFieldByTag(Top.desc, field.id)
     IN
     /\ field.valid
     /\ field.type = kLengthDelimited
     /\ TypeOf(fd) = TYPE_MESSAGE
     /\ output' = OpenMessageField(fd, Separator(indents, new_lines_mode, output))
     /\ indents' = IF new_lines_mode = kIncludeNewLines
                   THEN IncreaseIndents(indents) ELSE indents
     /\ EnterMessage(pool, fd.resolved_type_name, field.data, Advanced(field))
  /\ UNCHANGED <<dcheck_on, char_is_signed, pool, type, protobytes,
                 new_lines_mode, initial_indent_depth, enum_value>>
  /\ UNCHANGED searchVars

\* the end of the loop of ProtozeroToTextInternal: PERFETTO_DCHECK on
\* bytes_left, the return, and the rest of the caller (the closing brace in
\* PrintLengthDelimitedField, or the return of ProtozeroToText)
ReturnFromMessage ==
  /\ pc = "rendering"
  /\ ~NextField.valid
  /\ \/ /\ dcheck_on
        /\ bytes_left(Top.data, Top.read_ptr) # 0
        /\ pc' = "dcheck_abort"
        /\ UNCHANGED <<stack, indents, output>>
     \/ /\ ~dcheck_on \/ bytes_left(Top.data, Top.read_ptr) = 0
        /\ Len(stack) > 1
        /\ indents' = IF new_lines_mode = kIncludeNewLines
                      THEN DecreaseIndents(indents) ELSE indents
        /\ output' = CloseMessageField(indents', new_lines_mode, output)
        /\ stack' = SubSeq(stack, 1, Len(stack) - 1)
        /\ pc' = pc
     \/ /\ ~dcheck_on \/ bytes_left(Top.data, Top.read_ptr) = 0
        /\ Len(stack) = 1
        /\ stack' = <<>>
        /\ pc' = "done"
        /\ UNCHANGED <<indents, output>>
  /\ UNCHANGED <<dcheck_on, char_is_signed, pool, type, protobytes,
                 new_lines_mode, initial_indent_depth, enum_value>>
  /\ UNCHANGED searchVars

\* bytes a raw string continues with
RawTailBytes == {10, 65, 200}

RECURSIVE RawTails(_)
RawTails(n) ==
  IF n = 0 THEN {<<>>}
  ELSE {<<>>} \cup {<<b>> \o t : b \in RawTailBytes, t \in RawTails(n - 1)}

\* the raw strings given to the escaper: any first byte
RawStrings == {<<>>} \cup {<<b>> \o t : b \in Byte, t \in RawTails(MaxRawLen - 1)}

\* a call of QuoteAndEscapeTextProtoString(raw)
EscapeString ==
  /\ pc = "idle"
  /\ \E raw \in RawStrings :
       /\ protobytes' = raw
       /\ output' = QuoteAndEscapeTextProtoString(raw)
  /\ pc' = "escaped"
  /\ UNCHANGED <<dcheck_on, char_is_signed, pool, type, new_lines_mode,
                 initial_indent_depth, enum_value, stack, indents>>
  /\ UNCHANGED searchVars

EnumTypeNames == {".Color", ".Outer", ".GhostEnum"}

\* a call of ProtozeroEnumToText(type, enum_value)
EnumToText ==
  /\ pc = "idle"
  /\ \E t \in EnumTypeNames, v \in (-MaxEnumValue)..MaxEnumValue :
       /\ type' = t
       /\ enum_value' = v
       /\ output' = ProtozeroEnumToText(t, v)
  /\ pool' = TrackEventPool
  /\ pc' = "enum_done"
  /\ UNCHANGED <<dcheck_on, char_is_signed, protobytes, new_lines_mode,
                 initial_indent_depth, stack, indents>>
  /\ UNCHANGED searchVars

Next ==
  \/ ProtozeroToText
  \/ RenderField
  \/ RenderMessageField
  \/ ReturnFromMessage
  \/ EscapeString
  \/ EnumToText

Spec == Init /\ [][Next]_vars

(***************************************************************************)
(* SearchController (search_controller.ts, lines 34-232).                  *)
(***************************************************************************)
\* the omnibox texts: "", a text shorter than 4 characters, a longer one
OmniboxTexts == {<<>>, <<97, 98, 99>>, <<97, 98, 99, 100>>}

\* the OmniboxState objects the store can hold: every change of the store
\* makes a new object, and id stands for its identity
OmniboxStates(id) ==
  {[id |-> id, omnibox |-> text, mode |-> mode, force |-> force] :
     text \in OmniboxTexts, mode \in {"SEARCH", "COMMAND"}, force \in BOOLEAN}

\* specificSearch(search) up to its first await: the utid query is issued
specificSearch(state) == [state |-> state.id, awaiting |-> 1]

\* the CurrentSearchResults of the search made for an omnibox state
SearchResults(id, empty) == [state |-> id, empty |-> empty]

\* seq without its i-th element
Remove(seq, i) == SubSeq(seq, 1, i - 1) \o SubSeq(seq, i + 1, Len(seq))

\* SearchController.run() on a controller in the state given: the fields, the
\* unsettled searches and the published results after the call
run(updating, previous, unsettled, results) ==
  LET same == [updateInProgress |-> updating,
               previousOmniboxState |-> previous,
               searches |-> unsettled,
               published |-> results]
      newOmniboxState == omniboxState
      search == newOmniboxState.omnibox
  IN
  IF updating THEN same
  ELSE IF omniboxState = undefined \/ omniboxState.mode = "COMMAND" THEN same
  ELSE IF previous = newOmniboxState THEN same
  ELSE IF search = <<>> \/ (Len(search) < 4 /\ ~newOmniboxState.force)
  THEN [same EXCEPT !.previousOmniboxState = newOmniboxState,
                    !.published =
                       Append(results, SearchResults(newOmniboxState.id, TRUE))]
  ELSE [same EXCEPT !.previousOmniboxState = newOmniboxState,
                    !.searches = Append(unsettled, specificSearch(newOmniboxState))]

\* the controller after a call of run()
Becomes(after) ==
  /\ updateInProgress' = after.updateInProgress
  /\ previousOmniboxState' = after.previousOmniboxState
  /\ searches' = after.searches
  /\ published' = after.published

\* the UI replaces globals.state.omniboxState
SetOmniboxState ==
  /\ omniboxState.id < MaxOmniboxStates
  /\ omniboxState' \in OmniboxStates(omniboxState.id + 1)
  /\ UNCHANGED <<updateInProgress, previousOmniboxState, searches, published>>
  /\ UNCHANGED renderVars

\* the controller framework calls run()
CallRun ==
  /\ Becomes(run(updateInProgress, previousOmniboxState, searches, published))
  /\ UNCHANGED omniboxState
  /\ UNCHANGED renderVars

\* the utid query of a search completes: specificSearch goes on to its second
\* await
UtidQueryCompletes ==
  /\ \E i \in DOMAIN searches :
       /\ searches[i].awaiting = 1
       /\ searches' = [searches EXCEPT ![i].awaiting = 2]
  /\ UNCHANGED <<omniboxState, updateInProgress, previousOmniboxState, published>>
  /\ UNCHANGED renderVars

\* the second query of a search completes: specificSearch returns, the then
\* callback publishes the results, and the finally callback clears
\* updateInProgress and calls run()
SearchResolves ==
  /\ \E i \in DOMAIN searches :
       /\ searches[i].awaiting = 2
       /\ Becomes(run(FALSE, previousOmniboxState, Remove(searches, i),
                      Append(published, SearchResults(searches[i].state, FALSE))))
  /\ UNCHANGED omniboxState
  /\ UNCHANGED renderVars

\* a query of a search fails: specificSearch rejects, nothing is published,
\* and the finally callback clears updateInProgress and calls run()
SearchRejects ==
  /\ \E i \in DOMAIN searches :
       Becomes(run(FALSE, previousOmniboxState, Remove(searches, i), published))
  /\ UNCHANGED omniboxState
  /\ UNCHANGED renderVars

SearchNext ==
  \/ SetOmniboxState
  \/ CallRun
  \/ UtidQueryCompletes
  \/ SearchResolves
  \/ SearchRejects

SearchSpec == Init /\ [][SearchNext]_vars

(***************************************************************************)
(* Properties.                                                             *)
(***************************************************************************)
\* the descriptor of the field the innermost decoder reads next
NextFd == FindFieldByTag(Top.desc, NextField.id)
\* the next field is a nested message field
NextIsMessage == NextField.type = kLengthDelimited /\ TypeOf(NextFd) = TYPE_MESSAGE
\* a step of the render reads a valid field
ReadsField == pc = "rendering" /\ NextField.valid
\* seq starts with prefix
StartsWith(seq, prefix) ==
  Len(seq) >= Len(prefix) /\ SubSeq(seq, 1, Len(prefix)) = prefix

\* the declared types each Print function handles for its wire type
HandledTypes(wt) ==
  CASE wt = kVarInt -> {TYPE_INT32, TYPE_SINT32, TYPE_UINT32, TYPE_INT64,
                        TYPE_SINT64, TYPE_UINT64, TYPE_BOOL, TYPE_ENUM}
    [] wt = kFixed32 -> {TYPE_SFIXED32, TYPE_FIXED32, TYPE_FLOAT}
    [] wt = kFixed64 -> {TYPE_SFIXED64, TYPE_FIXED64, TYPE_DOUBLE}
    [] wt = kLengthDelimited -> {TYPE_BYTES, TYPE_STRING, TYPE_MESSAGE}
    [] OTHER -> {}

----------------------------------------------------------------------------
RECURSIVE Digits(_)
\* the decimal digits of a natural number, most significant first
Digits(n) ==
  IF n < 10 THEN <<48 + n>> ELSE Digits(n \div 10) \o <<48 + (n % 10)>>

\* the names a fragment of the next field may start with
LabelsOfNextField ==
  {Digits(NextField.id)}
  \cup (IF NextFd.null THEN {}
        ELSE {NextFd.name, FormattedFieldDescriptorName(NextFd)})

\* C1: every wire record the decoder reads appends exactly one fragment to the
\* output, after the separator and in the order the records are read: the
\* decoder moves past exactly that record, the text already written is kept,
\* and the appended fragment is the record's name or tag, ": " and a value
\* (a repeated tag appends a fragment each time).  A step that reads no
\* record appends no fragment (at most a closing brace).
C1_OneFragmentPerRecord ==
  [][pc = "rendering" =>
       IF NextField.valid
       THEN /\ Len(stack') >= Len(stack)
            /\ stack'[Len(stack)] = [Top EXCEPT !.read_ptr = NextField.next]
            /\ \E label \in LabelsOfNextField :
                 LET head == Separator(indents, new_lines_mode, output)
                               \o label \o ColonSpace
                 IN StartsWith(output', head) /\ Len(output') > Len(head)
       ELSE output' \in {output,
                         CloseMessageField(indents', new_lines_mode, output)}
    ]_vars

\* C1 witness: a repeated tag inside a nested message was rendered twice:
\* "bar: {\n  baz: 7\n  baz: 7\n}"
C1_Witness ==
  /\ pc = "done"
  /\ type = ".Outer"
  /\ protobytes = LengthDelimitedRecord(2, Baz7 \o Baz7)
  /\ output = <<98, 97, 114, 58, 32, 123, 10, 32, 32, 98, 97, 122, 58, 32, 55,
                10, 32, 32, 98, 97, 122, 58, 32, 55, 10, 125>>

----------------------------------------------------------------------------
\* a ProtozeroToText call has been made
Called == pc \in {"rendering", "done", "dcheck_abort", "crashed"}

\* C2: a ProtozeroToText call whose top-level type is absent from the pool
\* ends in an explicit failure; it neither goes on to render fields nor
\* returns text.
C2_UnknownTopLevelTypeFails ==
  (Called /\ ~FindDescriptorIdx(pool, type)) => pc = "dcheck_abort"

----------------------------------------------------------------------------
\* C3: whenever a decoder stops with bytes left unconsumed, the render ends in
\* a fault: it neither goes on nor returns text.
C3_LeftoverBytesFault ==
  [][(pc = "rendering" /\ ~NextField.valid
        /\ bytes_left(Top.data, Top.read_ptr) # 0)
       => pc' \notin {"rendering", "done"}
    ]_vars

----------------------------------------------------------------------------
\* C4: a length-delimited field declared TYPE_MESSAGE whose nested type is
\* absent from the pool is rendered as an unknown field (tag number and the
\* escaped payload), and the render goes on with the enclosing message.
C4_UnresolvedNestedTypeDegrades ==
  [][(ReadsField /\ NextIsMessage
        /\ ~FindDescriptorIdx(pool, NextFd.resolved_type_name))
       => /\ pc' = "rendering"
          /\ stack' = Advanced(NextField)
          /\ output' = Separator(indents, new_lines_mode, output)
                         \o Digits(NextField.id) \o ColonSpace
                         \o QuoteAndEscapeTextProtoString(NextField.data)
    ]_vars

----------------------------------------------------------------------------
\* the enum field read next resolves: its enum type is in the pool and the
\* wire value has a name in it
NextEnumResolves ==
  /\ FindDescriptorIdx(pool, NextFd.resolved_type_name)
  /\ Int32Of(NextField.int_value)
       \in DOMAIN pool[NextFd.resolved_type_name].enum_values

\* C5: for a varint record whose descriptor declares TYPE_ENUM: when the enum
\* type and the value both resolve the fragment is "<name>: <symbolic name>";
\* otherwise it is "<tag>: <raw unsigned decimal>", the very fragment the
\* record gets with no descriptor at all, without the declared name.
C5_EnumFallback ==
  [][(ReadsField /\ NextField.type = kVarInt /\ TypeOf(NextFd) = TYPE_ENUM)
       => LET head == Separator(indents, new_lines_mode, output) IN
          IF NextEnumResolves
          THEN output' = head \o NextFd.name \o ColonSpace
                           \o pool[NextFd.resolved_type_name]
                                .enum_values[Int32Of(NextField.int_value)]
          ELSE /\ output' = head \o Digits(NextField.id) \o ColonSpace
                              \o Decimal(NextField.int_value)
               /\ output' = PrintVarIntField(nullptr, NextField, pool, head)
    ]_vars

\* C5 witness: col = -2 has no name in Color and was rendered as
\* "3: 18446744073709551614"
C5_Witness ==
  /\ pc = "done"
  /\ type = ".Outer"
  /\ protobytes = WideVarIntRecord(3, MinusTwo)
  /\ output = <<51, 58, 32, 49, 56, 52, 52, 54, 55, 52, 52, 48, 55, 51, 55, 48,
                57, 53, 53, 49, 54, 49, 52>>

----------------------------------------------------------------------------
\* the value of one hexadecimal digit character, -1 for any other character
HexDigitValue(c) ==
  IF c \in 48..57 THEN c - 48
  ELSE IF c \in 97..102 \/ c \in 65..70 THEN 10 + ((c % 32) - 1)
  ELSE -1

\* text is "0x" and exactly width hexadecimal digits that denote the word v
IsPaddedHexOf(text, width, v) ==
  /\ Len(text) = 2 + width
  /\ SubSeq(text, 1, 2) = <<48, 120>>
  /\ \A k \in 1..width :
       LET byte == v[((width - k) \div 2) + 1] IN
       HexDigitValue(text[2 + k])
         = (IF (width - k) % 2 = 0 THEN byte % 16 ELSE byte \div 16)
  /\ \A i \in ((width \div 2) + 1)..8 : v[i] = 0

\* the field read next has no descriptor, or a declared type its wire type
\* does not handle
NextIsUnknown ==
  NextFd.null \/ TypeOf(NextFd) \notin HandledTypes(NextField.type)

\* C6: a record with no field descriptor, or with a declared type not handled
\* for its wire type, is rendered as "<tag>: <value>": unsigned decimal for a
\* varint, 0x and 8 hex digits for fixed32, 0x and 16 hex digits for fixed64,
\* the quoted escaped payload for length-delimited; the render goes on.
C6_UnknownFieldFallback ==
  [][(ReadsField /\ NextIsUnknown)
       => LET head == Separator(indents, new_lines_mode, output)
                        \o Digits(NextField.id) \o ColonSpace
              value == SubSeq(output', Len(head) + 1, Len(output'))
              v == NextField.int_value
          IN /\ pc' = "rendering"
             /\ StartsWith(output', head)
             /\ CASE NextField.type = kVarInt -> value = Decimal(v)
                  [] NextField.type = kFixed32 -> IsPaddedHexOf(value, 8, v)
                  [] NextField.type = kFixed64 -> IsPaddedHexOf(value, 16, v)
                  [] NextField.type = kLengthDelimited ->
                       value = QuoteAndEscapeTextProtoString(NextField.data)
    ]_vars

\* C6 witness: fixed64 record 9 rendered against a descriptor without fields:
\* "9: 0xfffffffffffffffe"
C6_Witness ==
  /\ pc = "done"
  /\ type = ".Color"
  /\ protobytes = Fixed64Record(9, AllOnesButOne)
  /\ output = <<57, 58, 32, 48, 120, 102, 102, 102, 102, 102, 102, 102, 102,
                102, 102, 102, 102, 102, 102, 102, 101>>

----------------------------------------------------------------------------
\* during a render the indentation is spaces only, of even length at least
\* 2 * initial_indent_depth, and back at exactly that when the render completes
C7_IndentState ==
  pc \in {"rendering", "done"}
    => /\ Len(indents) % 2 = 0
       /\ Len(indents) >= 2 * initial_indent_depth
       /\ \A k \in 1..Len(indents) : indents[k] = 32
       /\ pc = "done" => Len(indents) = 2 * initial_indent_depth

\* entering a nested message in multi-line mode adds exactly two spaces,
\* leaving it removes exactly two, no other step and no step of compact mode
\* changes the indentation
C7_IndentStep ==
  pc = "rendering"
    => /\ new_lines_mode = kSkipNewLines => indents' = indents
       /\ (new_lines_mode = kIncludeNewLines /\ NextField.valid /\ NextIsMessage)
            => indents' = indents \o <<32, 32>>
       /\ (new_lines_mode = kIncludeNewLines /\ NextField.valid /\ ~NextIsMessage)
            => indents' = indents
       /\ (new_lines_mode = kIncludeNewLines /\ ~NextField.valid
             /\ Len(stack') < Len(stack) /\ pc' = "rendering")
            => indents = indents' \o <<32, 32>>

\* C7: during a render the indentation is spaces only, of even length at least
\* 2 * initial_indent_depth; entering a nested message in multi-line mode adds
\* exactly two spaces, leaving it removes exactly two, compact mode never
\* changes it; a completed render leaves exactly 2 * initial_indent_depth.
C7_IndentationBalanced == [](C7_IndentState) /\ [][C7_IndentStep]_vars

\* C7 witness: a render with two levels of nesting, started at depth 1 in
\* multi-line mode, completed with the indentation back at two spaces
C7_Witness ==
  /\ pc = "done"
  /\ type = ".Outer"
  /\ new_lines_mode = kIncludeNewLines
  /\ initial_indent_depth = 1
  /\ protobytes = LengthDelimitedRecord(2, Nested(1))
  /\ indents = <<32, 32>>

----------------------------------------------------------------------------
\* the ten bytes with a two-character escape, and the letter of each:
\* \a \b \t \n \v \f \r \" \' \\
EscapeLetter ==
  (7 :> 97 @@ 8 :> 98 @@ 9 :> 116 @@ 10 :> 110 @@ 11 :> 118 @@ 12 :> 102
   @@ 13 :> 114 @@ 34 :> 34 @@ 39 :> 39 @@ 92 :> 92)

\* what one input byte maps to
EscapedForm(b) ==
  IF b \in DOMAIN EscapeLetter THEN <<92, EscapeLetter[b]>>
  ELSE IF b \in 32..126 THEN <<b>>
  ELSE <<92, 48 + (b \div 64), 48 + ((b \div 8) % 8), 48 + (b % 8)>>

RECURSIVE EscapedForms(_)
EscapedForms(raw) ==
  IF raw = <<>> THEN <<>>
  ELSE EscapedForm(Head(raw)) \o EscapedForms(Tail(raw))

\* C8: QuoteAndEscapeTextProtoString returns a double-quoted literal in which
\* every input byte maps, in order, to its two-character escape (the ten
\* special bytes), to itself (0x20..0x7E otherwise), or to a backslash and
\* exactly three octal digits, most significant first (every other byte,
\* 0x7F and above included).
C8_EscapeTable ==
  pc = "escaped" => output = <<34>> \o EscapedForms(protobytes) \o <<34>>

\* C8 witness: the bytes 0x01 0xC8 were escaped as "\001\310"
C8_Witness ==
  /\ pc = "escaped"
  /\ protobytes = <<1, 200>>
  /\ output = <<34, 92, 48, 48, 49, 92, 51, 49, 48, 34>>

----------------------------------------------------------------------------
\* the enum type and the value given to ProtozeroEnumToText are both known
EnumKnown ==
  /\ type \in DOMAIN pool
  /\ enum_value \in DOMAIN pool[type].enum_values

\* C9: ProtozeroEnumToText returns the symbolic name exactly when the type is
\* in the pool and the value has a name in it; in every other case it returns
\* the decimal string of the value, with a minus sign for a negative value.
C9_EnumToText ==
  pc = "enum_done"
    => IF EnumKnown THEN output = pool[type].enum_values[enum_value]
       ELSE output = (IF enum_value < 0 THEN <<45>> ELSE <<>>)
                       \o Digits(IF enum_value < 0 THEN -enum_value ELSE enum_value)

\* C9 witness: -3 has no name in Color and was returned as "-3"
C9_Witness ==
  /\ pc = "enum_done"
  /\ type = ".Color"
  /\ enum_value = -3
  /\ output = <<45, 51>>

----------------------------------------------------------------------------
\* the output after the next field's fragment is appended to base
WithNextFragment(base) ==
  IF NextIsMessage THEN OpenMessageField(NextFd, base)
  ELSE PrintField(NextFd, NextField, pool, base)

\* newline in multi-line mode, a space in compact mode
SeparatorChar == IF new_lines_mode = kIncludeNewLines THEN <<10>> ELSE <<32>>

\* C10 as stated: at every recursion level the first field of the message is
\* preceded by the indentation only, every later field by the separator
\* (newline or space) and the indentation.
C10_FirstFieldOfEveryMessage ==
  [][ReadsField
       => IF Top.read_ptr = 1
          THEN output' = WithNextFragment(output \o indents)
          ELSE output' = WithNextFragment(output \o SeparatorChar \o indents)
    ]_vars

\* C10 amended: only the first field of the top-level message is preceded by
\* the indentation alone; every other field, the first field of a nested
\* message included, is preceded by the separator (newline or space) and the
\* indentation.
C10_FirstFieldOfTopLevelOnly ==
  [][ReadsField
       => IF Len(stack) = 1 /\ Top.read_ptr = 1
          THEN output' = WithNextFragment(output \o indents)
          ELSE output' = WithNextFragment(output \o SeparatorChar \o indents)
    ]_vars

\* C10 witness: the first field of a nested message follows a newline and
\* the indentation: "bar: {\n  baz: 7\n}"
C10_Witness ==
  /\ pc = "done"
  /\ type = ".Outer"
  /\ protobytes = LengthDelimitedRecord(2, Baz7)
  /\ output = <<98, 97, 114, 58, 32, 123, 10, 32, 32, 98, 97, 122, 58, 32, 55,
                10, 125>>

----------------------------------------------------------------------------
\* the fragment of the field read next carries the field's name: the field has
\* a descriptor, its declared type is handled for its wire type, and an enum
\* resolves
NextIsNamed ==
  /\ ~NextFd.null
  /\ TypeOf(NextFd) \in HandledTypes(NextField.type)
  /\ (TypeOf(NextFd) = TYPE_ENUM => NextEnumResolves)

\* "[perfetto.protos.<name>]" for an extension field, the bare name otherwise
QualifiedName(fd) ==
  IF fd.is_extension
  THEN <<91>> \o <<112, 101, 114, 102, 101, 116, 116, 111>> \o <<46>>
         \o <<112, 114, 111, 116, 111, 115>> \o <<46>> \o fd.name \o <<93>>
  ELSE fd.name

\* C11: whatever the wire type and the declared type of a field, the name
\* printed in its fragment is "[perfetto.protos.<name>]" when the descriptor
\* has is_extension set and the bare field name when it has not.
C11_ExtensionNameOnEveryType ==
  [][(ReadsField /\ NextIsNamed)
       => StartsWith(output',
                     Separator(indents, new_lines_mode, output)
                       \o QualifiedName(NextFd) \o ColonSpace)
    ]_vars

----------------------------------------------------------------------------
\* the depth of the fields of the message being rendered: the initial depth
\* plus the number of nested messages entered
Depth == initial_indent_depth + Len(stack) - 1

\* n spaces
Spaces(n) == [i \in 1..n |-> 32]

RECURSIVE Count(_, _)
\* the number of occurrences of the byte b in seq
Count(seq, b) ==
  IF seq = <<>> THEN 0
  ELSE (IF Head(seq) = b THEN 1 ELSE 0) + Count(Tail(seq), b)

\* in multi-line mode the indentation is two spaces per level of depth; a
\* completed render has closed every brace it opened
C12_Layout ==
  /\ (pc = "rendering" /\ new_lines_mode = kIncludeNewLines)
       => indents = Spaces(2 * Depth)
  /\ pc = "done" => Count(output, 123) = Count(output, 125)

\* a MESSAGE field at depth k opens with its name and ": {"; in multi-line
\* mode the fields inside are rendered at 2 * (k + 1) spaces, each on a line
\* of its own, and the message is closed by a newline, 2 * k spaces and "}";
\* in compact mode it is closed by " }" and the indentation stays
C12_Step ==
  pc = "rendering"
    => /\ (NextField.valid /\ NextIsMessage)
            => /\ output' = Separator(indents, new_lines_mode, output)
                              \o FormattedFieldDescriptorName(NextFd)
                              \o <<58, 32, 123>>
               /\ indents' = IF new_lines_mode = kIncludeNewLines
                             THEN Spaces(2 * (Depth + 1)) ELSE indents
       /\ (NextField.valid /\ Len(stack) > 1 /\ new_lines_mode = kIncludeNewLines)
            => /\ StartsWith(output', output \o <<10>> \o Spaces(2 * Depth))
               /\ Len(output') > Len(output) + 1 + 2 * Depth
               /\ output'[Len(output) + 2 + 2 * Depth] # 32
       /\ (~NextField.valid /\ Len(stack') < Len(stack) /\ pc' = "rendering")
            => IF new_lines_mode = kIncludeNewLines
               THEN /\ output' = output \o <<10>> \o Spaces(2 * (Depth - 1))
                                   \o <<125>>
                    /\ indents' = Spaces(2 * (Depth - 1))
               ELSE /\ output' = output \o <<32, 125>>
                    /\ indents' = indents

\* C12: a MESSAGE field at depth k is rendered as its name, ": {", the nested
\* message's fields and a closing brace; in multi-line mode the nested fields
\* are indented by 2 * (k + 1) spaces and the closing brace follows a newline
\* and 2 * k spaces; in compact mode the closing text is " }" and the
\* indentation is not changed.
C12_MessageFieldLayout == [](C12_Layout) /\ [][C12_Step]_vars

\* C12 witness: two levels of nesting from depth 0 in multi-line mode:
\* "bar: {\n  sub: {\n    baz: 7\n  }\n}"
C12_Witness ==
  /\ pc = "done"
  /\ type = ".Outer"
  /\ new_lines_mode = kIncludeNewLines
  /\ initial_indent_depth = 0
  /\ output = <<98, 97, 114, 58, 32, 123, 10,
                32, 32, 115, 117, 98, 58, 32, 123, 10,
                32, 32, 32, 32, 98, 97, 122, 58, 32, 55, 10,
                32, 32, 125, 10,
                125>>

----------------------------------------------------------------------------
\* C13: at most one specificSearch is unsettled at any time, the results are
\* published in the order their searches were started, and once no search is
\* unsettled the last published result is the one for the omnibox state that
\* run() processed last (when a result for that state was published at all).
C13_OneSearchAtATime ==
  /\ Len(searches) <= 1
  /\ \A i, j \in DOMAIN published :
       i < j => published[i].state < published[j].state
  /\ (searches = <<>>
        /\ \E i \in DOMAIN published :
             published[i].state = previousOmniboxState.id)
       => published[Len(published)].state = previousOmniboxState.id

====
